---- MODULE Spec2Model ----
(***************************************************************************)
(* Model of the question-answering pipeline of the knowledge base:         *)
(*   src/search_knowledge.py  (main, search_and_respond, re-ranking)       *)
(*   src/utils.py             (detect_language, translate_text)            *)
(*                                                                         *)
(* Representation.                                                         *)
(*  - A text (Python str) is a sequence of fragments; the string is the    *)
(*    fragments joined by a blank.  Python's str.lower() and the substring *)
(*    test `p in s` are modelled per fragment by the tables LowerFrag and  *)
(*    Occurs, which list, for every fragment used, its lower-case form and *)
(*    the literal patterns of the source that occur in it.  No pattern of  *)
(*    the source spans two fragments of the texts used here.               *)
(*  - A float score is an exact fixed-point number: float(result.score)    *)
(*    is raw * Scale, and a factor 1.5, 0.3, 1.75 ... is num/den applied   *)
(*    by Mul.  Scale holds enough factors 2 and 5 for every product of the *)
(*    code to be exact (floating-point rounding is not modelled).          *)
(*  - None is the string NoneV.                                            *)
(*  - A JSON value is a tagged record [t, v] (JStr, JBool, JNum, JList,    *)
(*    JObj); model output that is not JSON is [t |-> "garbage"].           *)
(***************************************************************************)
EXTENDS Integers, Sequences, FiniteSets, TLC

NoneV == "<None>"
\* an absent text (no value returned, no reply received)
NoText == <<NoneV>>

\* ------------------------------------------------------------------------
\* Bounds of the environment (not program constants)
\* ------------------------------------------------------------------------
\* longest search response in the control specification (Spec)
MaxResults == 2
\* longest search response in the ranking specification (SpecRank)
MaxRankResults == 9
\* most fragments in a candidate's content in the scoring specification
MaxFrags == 2

\* ------------------------------------------------------------------------
\* Program constants
\* ------------------------------------------------------------------------
\* context = context[:8]
TopK == 8
\* max_num_results=30
MaxNumResults == 30
\* common denominator of the score factors: 1.5 (/2) twice, 0.3 (/10), 1.75 (/4)
Scale == 2 * 2 * 10 * 4

\* ------------------------------------------------------------------------
\* Strings
\* ------------------------------------------------------------------------
ThreadMarker == "\"thread_ts\":"

\* str.lower() of one fragment (a fragment not listed is already lower case)
LowerFrag(f) ==
  CASE f = "QUIT" -> "quit"
    [] f = "Quit now" -> "quit now"
    [] f = "How do I Reclaim a lead?" -> "how do i reclaim a lead?"
    [] f = "What is a budget?" -> "what is a budget?"
    [] f = "Hoe werkt een CHARGEBACK?" -> "hoe werkt een chargeback?"
    [] f = "Wat is een budget?" -> "wat is een budget?"
    [] f = "How does a chargeback work?" -> "how does a chargeback work?"
    [] f = "You can reclaim within 30 days." -> "you can reclaim within 30 days."
    [] f = "Je kunt reclameren binnen 30 dagen." -> "je kunt reclameren binnen 30 dagen."
    [] f = "We NEED approval" -> "we need approval"
    [] f = "Reclaim Guideline" -> "reclaim guideline"
    [] f = "Customer Success Manual" -> "customer success manual"
    [] f = "Profile page" -> "profile page"
    [] f = "\"metadata\": {\"file_name\": \"Manual.docx\"}"
         -> "\"metadata\": {\"file_name\": \"manual.docx\"}"
    [] f = "\"metadata\": {\"file_path\": \"docs/Guide.xlsx\"}"
         -> "\"metadata\": {\"file_path\": \"docs/guide.xlsx\"}"
    [] f = "Review" -> "review"
    [] f = "must have a Review" -> "must have a review"
    [] OTHER -> f

\* the literal patterns of the source (and the exclude terms used) that occur,
\* case-sensitively, in one fragment
Occurs(f) ==
  CASE f = "how do i reclaim a lead?" -> {"reclaim"}
    [] f = "Hoe werkt een CHARGEBACK?" -> {}
    [] f = "hoe werkt een chargeback?" -> {"chargeback"}
    [] f = "How does a chargeback work?" -> {"chargeback"}
    [] f = "how does a chargeback work?" -> {"chargeback"}
    [] f = "You can reclaim within 30 days." -> {"reclaim"}
    [] f = "you can reclaim within 30 days." -> {"reclaim"}
    [] f = "we need approval" -> {"need"}
    [] f = "mandatory rules" -> {"mandatory", "rules"}
    [] f = "step 1: pay" -> {"1:"}
    [] f = "a - b" -> {"-"}
    [] f = "\"thread_ts\": \"1700.12\"" -> {ThreadMarker}
    [] f = "\"thread_ts\": \"\"" -> {ThreadMarker}
    [] f = "\"metadata\": {\"source\": \"help\"}" -> {"help"}
    [] f = "\"metadata\": {\"source\": \"product-changes\"}" -> {"product-changes", "-"}
    [] f = "\"metadata\": {\"source\": \"customer-success\"}" -> {"customer-success", "-"}
    [] f = "Reclaim Guideline" -> {"Reclaim Guideline"}
    [] f = "reclaim guideline" -> {"reclaim"}
    [] f = "Customer Success Manual" -> {"Customer Success Manual"}
    [] f = "posted in product-changes" -> {"product-changes", "-"}
    [] f = "helpful tip" -> {"help"}
    [] f = "good review" -> {"review"}
    [] f = "profile page" -> {"profile"}
    [] f = "review" -> {"review"}
    [] f = "must have a Review" -> {"must have"}
    [] f = "must have a review" -> {"must have", "review"}
    [] f = "profile" -> {"profile"}
    [] f = "help" -> {"help"}
    [] f = "product-changes" -> {"product-changes", "-"}
    [] f = "customer-success" -> {"customer-success", "-"}
    [] f = "help-product-changes" -> {"help", "product-changes", "-"}
    [] OTHER -> {}

\* s.lower()
Lower(s) == [i \in DOMAIN s |-> LowerFrag(s[i])]

\* p in s   (p a literal pattern; the empty string occurs in every string)
Contains(s, p) == p = "" \/ \E i \in DOMAIN s : p \in Occurs(s[i])

\* not text or len(text.strip()) == 0
IsBlank(s) == \A i \in DOMAIN s : s[i] = " "

\* ------------------------------------------------------------------------
\* utils.detect_language
\* ------------------------------------------------------------------------
\* The codes langdetect.detect may return for a text; "raise" stands for
\* LangDetectException (no features in the text).  langdetect is not
\* deterministic on short texts, hence a set.
DetectCodes(s) ==
  IF IsBlank(s) THEN {"raise"}
  ELSE CASE s[1] = "Hoe werkt een CHARGEBACK?" -> {"nl"}
         [] s[1] = "Wat is een budget?" -> {"nl", "af"}
         [] s[1] = "Je kunt reclameren binnen 30 dagen." -> {"nl"}
         [] OTHER -> {"en"}

lang_map(code) ==
  CASE code = "nl" -> "Dutch"
    [] code = "de" -> "German"
    [] code = "fr" -> "French"
    [] code = "en" -> "English"
    [] code = "es" -> "Spanish"
    [] OTHER -> "English"

\* the set of languages detect_language(text) may return
detect_language(s) ==
  {IF c = "raise" THEN "English" ELSE lang_map(c) : c \in DetectCodes(s)}

\* ------------------------------------------------------------------------
\* utils.translate_text
\* ------------------------------------------------------------------------
\* what the translation model may answer (its raw output, returned verbatim)
TranslationReplies(target) ==
  IF target = "English"
  THEN {<<"How does a chargeback work?">>, <<"Wat is een budget?">>}
  ELSE {<<"Je kunt reclameren binnen 30 dagen.">>}

\* mutant: the whitespace test of line 47 is missing (detection then decides)
translate_text_noblank(text, target) ==
  UNION {
    IF d = target
    THEN {[raised |-> FALSE, result |-> text, ncalls |-> 0, detected |-> d, reply |-> NoText]}
    ELSE {[raised |-> FALSE, result |-> r, ncalls |-> 1, detected |-> d, reply |-> r]
            : r \in TranslationReplies(target)}
         \cup {[raised |-> TRUE, result |-> NoText, ncalls |-> 1, detected |-> d, reply |-> NoText]}
    : d \in detect_language(text)}

\* Every outcome of translate_text(client, text, target): the value returned
\* (or raised: the model call failed), the number of model calls issued, the
\* language detected (NoneV when detection was not reached) and the model's reply (NoText: none).
translate_text(text, target) ==
  IF IsBlank(text)
  THEN {[raised |-> FALSE, result |-> text, ncalls |-> 0, detected |-> NoneV, reply |-> NoText]}
  ELSE UNION {
    IF d = target
    THEN {[raised |-> FALSE, result |-> text, ncalls |-> 0, detected |-> d, reply |-> NoText]}
    ELSE {[raised |-> FALSE, result |-> r, ncalls |-> 1, detected |-> d, reply |-> r]
            : r \in TranslationReplies(target)}
         \cup {[raised |-> TRUE, result |-> NoText, ncalls |-> 1, detected |-> d, reply |-> NoText]}
    : d \in detect_language(text)}

\* ------------------------------------------------------------------------
\* JSON values
\* ------------------------------------------------------------------------
JStr(s) == [t |-> "str", v |-> s]
JBool(b) == [t |-> "bool", v |-> b]
JNum(n) == [t |-> "num", v |-> n]
JList(l) == [t |-> "list", v |-> l]
JObj(r) == [t |-> "obj", v |-> r]
Garbage == [t |-> "garbage", v |-> NoneV]

\* Python truthiness of a decoded JSON value
Truthy(x) ==
  CASE x.t = "bool" -> x.v
    [] x.t = "str" -> x.v # <<>>
    [] x.t = "num" -> x.v # 0
    [] x.t = "list" -> x.v # <<>>
    [] x.t = "obj" -> DOMAIN x.v # {}
    [] OTHER -> FALSE

\* d[key] is defined: d is a dict that has the key (else TypeError / KeyError)
HasKey(d, key) == d.t = "obj" /\ key \in DOMAIN d.v

\* d.get(key, default)
Get(d, key, default) == IF key \in DOMAIN d.v THEN d.v[key] ELSE default

\* json.loads(content): ok = FALSE stands for json.JSONDecodeError
json_loads(out) ==
  IF out.t = "garbage" THEN [ok |-> FALSE, value |-> NoneV] ELSE [ok |-> TRUE, value |-> out]

\* ------------------------------------------------------------------------
\* search_knowledge.py: scoring
\* ------------------------------------------------------------------------
\* x * (num/den), exact
Mul(x, num, den) == (x * num) \div den

requirement_indicators ==
  {"need", "require", "must have", "rules", "criteria", "only if", "mandatory"}

\* CHECK and BULLET stand for the check-mark and bullet glyphs
list_markers == {"1:", "2:", "3:", "4:", ":heavy_check_mark:", "CHECK", "BULLET", "-"}

\* source_multipliers.get(source, 1.0) as <<numerator, denominator>>
source_multiplier(source) ==
  CASE source = "official_document" -> <<2, 1>>
    [] source = "product-changes" -> <<7, 4>>
    [] source = "help" -> <<5, 4>>
    [] source = "customer-success" -> <<1, 1>>
    [] OTHER -> <<1, 1>>

\* mutant: the chat check of a reclaim query is lost, every source is boosted
adjust_score_by_source_nochat(score, source, content_str, is_reclaim_query) ==
  IF is_reclaim_query
  THEN Mul(score, 2, 1)
  ELSE Mul(score, source_multiplier(source)[1], source_multiplier(source)[2])

\* mutant: a reclaim query down-weights chat content instead of ignoring it
adjust_score_by_source_halved(score, source, content_str, is_reclaim_query) ==
  IF is_reclaim_query
  THEN IF Contains(content_str, ThreadMarker) THEN Mul(score, 1, 2) ELSE Mul(score, 2, 1)
  ELSE Mul(score, source_multiplier(source)[1], source_multiplier(source)[2])

\* mutant: product-changes and help swapped in the trust table
adjust_score_by_source_swapped(score, source, content_str, is_reclaim_query) ==
  IF is_reclaim_query
  THEN IF Contains(content_str, ThreadMarker) THEN 0 ELSE Mul(score, 2, 1)
  ELSE IF source = "help" THEN Mul(score, 7, 4)
       ELSE IF source = "product-changes" THEN Mul(score, 5, 4)
       ELSE Mul(score, source_multiplier(source)[1], source_multiplier(source)[2])

adjust_score_by_source(score, source, content_str, is_reclaim_query) ==
  IF is_reclaim_query
  THEN IF Contains(content_str, ThreadMarker) THEN 0 ELSE Mul(score, 2, 1)
  ELSE Mul(score, source_multiplier(source)[1], source_multiplier(source)[2])

\* ------------------------------------------------------------------------
\* search_knowledge.py: metadata extraction
\* ------------------------------------------------------------------------
\* re.search(r'"metadata":\s*({[^}]+})') on one fragment, then json.loads of
\* the group: matched = FALSE when the pattern is not in the fragment,
\* ok = FALSE when the group is not JSON; an absent key is NoneV.
MetaOfFrag(f) ==
  CASE f = "\"metadata\": {\"source\": \"help\"}" ->
         [matched |-> TRUE, ok |-> TRUE, source |-> "help", file_name |-> NoneV, file_path |-> NoneV]
    [] f = "\"metadata\": {\"source\": \"product-changes\"}" ->
         [matched |-> TRUE, ok |-> TRUE, source |-> "product-changes", file_name |-> NoneV, file_path |-> NoneV]
    [] f = "\"metadata\": {\"source\": \"customer-success\"}" ->
         [matched |-> TRUE, ok |-> TRUE, source |-> "customer-success", file_name |-> NoneV, file_path |-> NoneV]
    [] f = "\"metadata\": {\"source\": \"official_document\"}" ->
         [matched |-> TRUE, ok |-> TRUE, source |-> "official_document", file_name |-> NoneV, file_path |-> NoneV]
    [] f = "\"metadata\": {\"source\": \"billing\"}" ->
         [matched |-> TRUE, ok |-> TRUE, source |-> "billing", file_name |-> NoneV, file_path |-> NoneV]
    [] f = "\"metadata\": {\"file_name\": \"Manual.docx\"}" ->
         [matched |-> TRUE, ok |-> TRUE, source |-> NoneV, file_name |-> "Manual.docx", file_path |-> NoneV]
    [] f = "\"metadata\": {\"file_path\": \"docs/Guide.xlsx\"}" ->
         [matched |-> TRUE, ok |-> TRUE, source |-> NoneV, file_name |-> NoneV, file_path |-> "docs/Guide.xlsx"]
    [] f = "\"metadata\": {oops}" ->
         [matched |-> TRUE, ok |-> FALSE, source |-> NoneV, file_name |-> NoneV, file_path |-> NoneV]
    [] OTHER ->
         [matched |-> FALSE, ok |-> FALSE, source |-> NoneV, file_name |-> NoneV, file_path |-> NoneV]

\* metadata["file_path"].split("/")[-1]
LastPathPart(path) ==
  CASE path = "docs/Guide.xlsx" -> "Guide.xlsx"
    [] OTHER -> path

\* re.search(r'"thread_ts":\s*"([^"]+)"') on one fragment: group 1, or NoneV
ThreadOfFrag(f) ==
  CASE f = "\"thread_ts\": \"1700.12\"" -> "1700.12"
    [] OTHER -> NoneV

\* re.search returns the leftmost match: the least index of I, or 0
FirstIndex(I) == IF I = {} THEN 0 ELSE CHOOSE i \in I : \A j \in I : i <= j

extract_metadata(content_str) ==
  LET m == FirstIndex({i \in DOMAIN content_str : MetaOfFrag(content_str[i]).matched})
      meta == IF m = 0 THEN MetaOfFrag("") ELSE MetaOfFrag(content_str[m])
      \* lines 37-48: a json.loads failure leaves both unset
      source1 == IF meta.matched /\ meta.ok THEN meta.source ELSE NoneV
      name1 == IF meta.matched /\ meta.ok
               THEN IF meta.file_name # NoneV THEN meta.file_name
                    ELSE IF meta.file_path # NoneV THEN LastPathPart(meta.file_path)
                    ELSE NoneV
               ELSE NoneV
      \* lines 51-58
      indicator == IF name1 = NoneV /\ source1 = NoneV
                   THEN IF Contains(content_str, "Reclaim Guideline") THEN 1
                        ELSE IF Contains(content_str, "Customer Success Manual") THEN 2
                        ELSE 0
                   ELSE 0
      name2 == CASE indicator = 1 -> "Reclaim Guideline 2025.xlsx"
                 [] indicator = 2 -> "Customer Success Manual.docx"
                 [] OTHER -> name1
      source2 == IF indicator # 0 THEN "official_document" ELSE source1
      \* lines 61-67
      source3 == IF source2 = NoneV
                 THEN IF Contains(content_str, "product-changes") THEN "product-changes"
                      ELSE IF Contains(content_str, "help") THEN "help"
                      ELSE IF Contains(content_str, "customer-success") THEN "customer-success"
                      ELSE NoneV
                 ELSE source2
  IN [source |-> source3, document_name |-> name2]

\* lines 176-177
thread_ts_of(content_str) ==
  LET m == FirstIndex({i \in DOMAIN content_str : ThreadOfFrag(content_str[i]) # NoneV})
  IN IF m = 0 THEN NoneV ELSE ThreadOfFrag(content_str[m])

\* the link is the pair (channel, thread_ts) of the URL, or NoneV
\* thread_ts.replace('.', '')
NoDots(thread_ts) ==
  CASE thread_ts = "1700.12" -> "170012"
    [] OTHER -> thread_ts

\* mutant: the channel test of line 80 is missing
generate_slack_link_anysource(thread_ts, source) ==
  IF thread_ts # NoneV /\ thread_ts # ""
  THEN <<IF source = NoneV THEN "" ELSE source, NoDots(thread_ts)>>
  ELSE <<NoneV>>

generate_slack_link(thread_ts, source) ==
  LET channel == IF source \in {"product-changes", "help", "customer-success"}
                 THEN source ELSE ""
  IN IF thread_ts # NoneV /\ thread_ts # "" /\ channel # ""
     THEN <<channel, NoDots(thread_ts)>>
     ELSE <<NoneV>>

\* ------------------------------------------------------------------------
\* search_knowledge.py: the re-ranking loop of search_and_respond
\* ------------------------------------------------------------------------
\* term.lower() as a pattern (an exclude term is a text of one fragment)
TermPattern(term) == IF term = <<>> THEN "" ELSE LowerFrag(term[1])

\* term.lower() in content_str.lower(), for a string term
TermMatches(term, content_str) ==
  term.t = "str" /\ Contains(Lower(content_str), TermPattern(term.v))

\* any(...) of line 171 reaches a term that has no .lower(): AttributeError
ExclusionRaises(exclude_terms, content_str) ==
  /\ exclude_terms.t = "list"
  /\ \E i \in DOMAIN exclude_terms.v :
       /\ exclude_terms.v[i].t # "str"
       /\ \A j \in 1..(i - 1) : ~TermMatches(exclude_terms.v[j], content_str)

\* the condition of line 171
ExclusionApplies(exclude_terms, content_str) ==
  /\ Truthy(exclude_terms)
  /\ exclude_terms.t = "list"
  /\ \E i \in DOMAIN exclude_terms.v : TermMatches(exclude_terms.v[i], content_str)

RECURSIVE MulTimes(_, _, _, _)
MulTimes(x, num, den, k) == IF k = 0 THEN x ELSE MulTimes(Mul(x, num, den), num, den, k - 1)

\* mutant: the penalty is applied once per matching term
exclusion_penalty_each(base_score, exclude_terms, content_str) ==
  IF ExclusionApplies(exclude_terms, content_str)
  THEN MulTimes(base_score, 3, 10,
         Cardinality({i \in DOMAIN exclude_terms.v : TermMatches(exclude_terms.v[i], content_str)}))
  ELSE base_score

\* lines 170-172
exclusion_penalty(base_score, exclude_terms, content_str) ==
  IF ExclusionApplies(exclude_terms, content_str)
  THEN Mul(base_score, 3, 10)
  ELSE base_score

\* mutant: the requirement phrases are looked up without .lower()
requirement_boost_cased(base_score, content_str) ==
  IF \E term \in requirement_indicators : Contains(content_str, term)
  THEN Mul(base_score, 3, 2)
  ELSE base_score

\* lines 162-164
requirement_boost(base_score, content_str) ==
  IF \E term \in requirement_indicators : Contains(Lower(content_str), term)
  THEN Mul(base_score, 3, 2)
  ELSE base_score

\* lines 167-168
list_boost(base_score, content_str) ==
  IF \E marker \in list_markers : Contains(content_str, marker)
  THEN Mul(base_score, 3, 2)
  ELSE base_score

\* base_score after lines 159-172; float(result.score) is raw * Scale
boosted_score(result, exclude_terms) ==
  exclusion_penalty(
    list_boost(requirement_boost(result.score * Scale, result.content), result.content),
    exclude_terms, result.content)

\* the entry of lines 174-190 for the result at position pos (pos is not a
\* field of the code's entry: it records which result the entry came from)
make_entry(result, pos, exclude_terms, is_reclaim_query) ==
  LET md == extract_metadata(result.content)
      thread_ts == thread_ts_of(result.content)
  IN [content |-> result.content,
      score |-> adjust_score_by_source(boosted_score(result, exclude_terms),
                                       md.source, result.content, is_reclaim_query),
      source |-> md.source,
      slack_link |-> IF thread_ts # NoneV
                     THEN generate_slack_link(thread_ts, md.source) ELSE <<NoneV>>,
      document_name |-> md.document_name,
      pos |-> pos]

\* one entry per search result, in result order
all_entries(data, exclude_terms, is_reclaim_query) ==
  [i \in DOMAIN data |-> make_entry(data[i], i, exclude_terms, is_reclaim_query)]

\* mutant: entries of score zero are kept
keep_entry_nonneg(entry) == entry.score >= 0

\* line 193
keep_entry(entry) == entry.score > 0

\* mutant: an entry is placed before the entries of equal score
insert_desc_unstable(sorted, x) ==
  LET k == Cardinality({i \in DOMAIN sorted : sorted[i].score > x.score})
  IN SubSeq(sorted, 1, k) \o <<x>> \o SubSeq(sorted, k + 1, Len(sorted))

\* x placed after every entry whose score is at least its own
insert_desc(sorted, x) ==
  LET k == Cardinality({i \in DOMAIN sorted : sorted[i].score >= x.score})
  IN SubSeq(sorted, 1, k) \o <<x>> \o SubSeq(sorted, k + 1, Len(sorted))

RECURSIVE sort_desc(_)
\* context.sort(key=score, reverse=True): a stable sort, built by inserting
\* the entries in list order
sort_desc(list) ==
  IF list = <<>> THEN <<>>
  ELSE insert_desc(sort_desc(SubSeq(list, 1, Len(list) - 1)), list[Len(list)])

\* context[:8]
truncate(list) == SubSeq(list, 1, IF Len(list) < TopK THEN Len(list) ELSE TopK)

\* lines 153-198: the context built from the search response
rerank(entry_list) == truncate(sort_desc(SelectSeq(entry_list, keep_entry)))

\* ------------------------------------------------------------------------
\* State
\* ------------------------------------------------------------------------
VARIABLES
  pc,               \* where main / search_and_respond stands
  query,            \* main: the line read by input()
  query_language,   \* search_and_respond: detect_language(query)
  search_query,     \* search_and_respond: the (translated) question
  query_context,    \* the intent model's raw output
  query_analysis,   \* the decoded intent, or the fallback intent
  results,          \* search_response.data
  entries,          \* the entry built for each result, before line 193
  context,          \* the context list handed to answer synthesis
  english_response, \* the synthesis model's answer
  output,           \* what main printed for the last question (none while it is answered)
  calls,            \* external calls issued by the current invocation
  tr,               \* the last translate_text invocation
  ingest_pc,          \* process_slack_data: where the ingestion run stands
  ingest_path,        \* which function is running over the messages
  messages,           \* the chat messages handed to it
  msg_index,          \* the message the for loop is at
  threads,            \* group_messages_by_thread: the threads dict, in insertion order
  processed_messages, \* process_conversations: the list built so far
  ingest_result       \* what the function returned or raised

ingest_vars == <<ingest_pc, ingest_path, messages, msg_index, threads,
                 processed_messages, ingest_result>>

vars == <<pc, query, query_language, search_query, query_context, query_analysis,
          results, entries, context, english_response, output, calls, tr,
          ingest_vars>>

qa_vars == <<pc, query, query_language, search_query, query_context, query_analysis,
             results, entries, context, english_response, output, calls, tr>>

NoResult == [raised |-> FALSE, error |-> NoneV, items |-> <<>>]

NoValue == [t |-> "unset", v |-> NoneV]
NoOutput == [kind |-> "none", text |-> NoText]
NoTr == [text |-> NoText, target |-> NoneV, raised |-> FALSE, result |-> NoText,
         ncalls |-> 0, detected |-> NoneV, reply |-> NoText]

\* the locals of search_and_respond before line 87
FreshLocals ==
  /\ query_language' = NoneV
  /\ search_query' = NoText
  /\ query_context' = NoValue
  /\ query_analysis' = NoValue
  /\ results' = <<>>
  /\ entries' = <<>>
  /\ context' = <<>>
  /\ english_response' = NoText

Init ==
  /\ pc = "prompt"
  /\ query = NoText
  /\ query_language = NoneV
  /\ search_query = NoText
  /\ query_context = NoValue
  /\ query_analysis = NoValue
  /\ results = <<>>
  /\ entries = <<>>
  /\ context = <<>>
  /\ english_response = NoText
  /\ output = NoOutput
  /\ calls = <<>>
  /\ tr = NoTr
  /\ ingest_pc = "idle"
  /\ ingest_path = NoneV
  /\ messages = <<>>
  /\ msg_index = 0
  /\ threads = <<>>
  /\ processed_messages = <<>>
  /\ ingest_result = NoResult

\* lines 285-289: the exception is printed and the loop goes on; the locals
\* of the abandoned invocation are gone
ReportError(op) ==
  /\ pc' = "prompt"
  /\ output' = [kind |-> "error", text |-> <<op>>]
  /\ FreshLocals

\* lines 280-284: the response is printed and the loop goes on
PrintResponse(text) ==
  /\ pc' = "prompt"
  /\ output' = [kind |-> "response", text |-> text]
  /\ FreshLocals

Call(op, arg) == [op |-> op, arg |-> arg]

TrRecord(text, target, o) ==
  [text |-> text, target |-> target, raised |-> o.raised, result |-> o.result,
   ncalls |-> o.ncalls, detected |-> o.detected, reply |-> o.reply]

TrCalls(target, o) == IF o.ncalls = 1 THEN <<Call("translate", <<target>>)>> ELSE <<>>

\* ------------------------------------------------------------------------
\* main and search_and_respond
\* ------------------------------------------------------------------------
\* mutant: the exit test compares the line as typed
IsQuitCased(q) == q = <<"quit">>

\* line 276
IsQuit(q) == Lower(q) = <<"quit">>

\* main lines 275-280 and search_and_respond line 87 and the test of line 88
Input(Q) ==
  /\ pc = "prompt"
  /\ \E q \in Q :
       /\ query' = q
       /\ calls' = <<>>
       /\ tr' = NoTr
       /\ IF IsQuit(q)
          THEN /\ pc' = "exited"
               /\ FreshLocals
               /\ UNCHANGED output
          ELSE \E lang \in detect_language(q) :
               /\ output' = NoOutput
               /\ query_language' = lang
               /\ search_query' = IF lang = "English" THEN q ELSE NoText
               /\ pc' = IF lang = "English" THEN "analyze" ELSE "translate_query"
               /\ UNCHANGED <<query_context, query_analysis, results, entries, context,
                              english_response>>
  /\ UNCHANGED ingest_vars

\* line 88: translate_text(client, query) returned
TranslateQuery ==
  /\ pc = "translate_query"
  /\ \E o \in translate_text(query, "English") :
       /\ ~o.raised
       /\ search_query' = o.result
       /\ tr' = TrRecord(query, "English", o)
       /\ calls' = calls \o TrCalls("English", o)
  /\ pc' = "analyze"
  /\ UNCHANGED <<query, query_language, query_context, query_analysis, results, entries,
                 context, english_response, output>>
  /\ UNCHANGED ingest_vars

\* line 88: the translation call raised
TranslateQueryFails ==
  /\ pc = "translate_query"
  /\ \E o \in translate_text(query, "English") :
       /\ o.raised
       /\ tr' = TrRecord(query, "English", o)
       /\ calls' = calls \o TrCalls("English", o)
  /\ ReportError("translate")
  /\ UNCHANGED query
  /\ UNCHANGED ingest_vars

\* mutant: the keyword test of the fallback looks at search_query as typed
fallback_intent_cased(sq) ==
  JObj([main_concept |-> JStr(sq),
        search_query |-> JStr(sq),
        exclude_terms |-> JList(<<>>),
        is_reclaim_query |-> JBool(Contains(sq, "reclaim") \/ Contains(sq, "dispute")
                                   \/ Contains(sq, "chargeback"))])

\* lines 138-143
fallback_intent(sq) ==
  JObj([main_concept |-> JStr(sq),
        search_query |-> JStr(sq),
        exclude_terms |-> JList(<<>>),
        is_reclaim_query |-> JBool(Contains(Lower(sq), "reclaim") \/ Contains(Lower(sq), "dispute")
                                   \/ Contains(Lower(sq), "chargeback"))])

\* lines 134-143
decode_intent(out, sq) ==
  IF json_loads(out).ok THEN json_loads(out).value ELSE fallback_intent(sq)

\* lines 91-143 and the argument of line 148: the intent model answered out
Analyze(O) ==
  /\ pc = "analyze"
  /\ calls' = calls \o <<Call("analyze", search_query)>>
  /\ \E out \in O :
       IF HasKey(decode_intent(out, search_query), "search_query")
       THEN /\ query_context' = out
            /\ query_analysis' = decode_intent(out, search_query)
            /\ pc' = "search"
            /\ UNCHANGED <<query_language, search_query, results, entries, context,
                           english_response, output>>
       ELSE \* query_analysis["search_query"]: TypeError or KeyError; the
            \* output that caused it is kept on record until the next line is read
            /\ query_context' = out
            /\ pc' = "prompt"
            /\ output' = [kind |-> "error", text |-> <<"search_query">>]
            /\ query_language' = NoneV
            /\ search_query' = NoText
            /\ query_analysis' = NoValue
            /\ UNCHANGED <<results, entries, context, english_response>>
  /\ UNCHANGED <<query, tr>>
  /\ UNCHANGED ingest_vars

\* lines 91-132: the intent call raised
AnalyzeFails ==
  /\ pc = "analyze"
  /\ calls' = calls \o <<Call("analyze", search_query)>>
  /\ ReportError("analyze")
  /\ UNCHANGED <<query, tr>>
  /\ UNCHANGED ingest_vars

\* lines 146-258 up to the synthesis call: the index answered data
Search(R) ==
  /\ pc = "search"
  /\ \E data \in R :
       LET exclude_terms == Get(query_analysis, "exclude_terms", JList(<<>>))
           is_reclaim_query == Truthy(Get(query_analysis, "is_reclaim_query", JBool(FALSE)))
           built == all_entries(data, exclude_terms, is_reclaim_query)
       IN /\ calls' = calls \o <<Call("search", query_analysis.v.search_query.v)>>
          /\ IF \E i \in DOMAIN data : ExclusionRaises(exclude_terms, data[i].content)
             THEN \* line 171: AttributeError
                  ReportError("exclude_terms")
             ELSE IF ~HasKey(query_analysis, "main_concept")
             THEN \* line 208: KeyError
                  ReportError("main_concept")
             ELSE /\ results' = data
                  /\ entries' = built
                  /\ context' = rerank(built)
                  /\ pc' = "synthesize"
                  /\ UNCHANGED <<query_language, search_query, query_context, query_analysis,
                                 english_response, output>>
  /\ UNCHANGED <<query, tr>>
  /\ UNCHANGED ingest_vars

\* lines 146-150: the search call raised
SearchFails ==
  /\ pc = "search"
  /\ calls' = calls \o <<Call("search", query_analysis.v.search_query.v)>>
  /\ ReportError("search")
  /\ UNCHANGED <<query, tr>>
  /\ UNCHANGED ingest_vars

\* what the synthesis model may answer
Responses ==
  {<<"You can reclaim within 30 days.">>, <<"Je kunt reclameren binnen 30 dagen.">>, <<" ">>}

\* mutant: the answer is handed to back-translation whatever the query language
Synthesize_translates_always ==
  /\ pc = "synthesize"
  /\ calls' = calls \o <<Call("synthesize", search_query)>>
  /\ \E r \in Responses :
       /\ english_response' = r
       /\ pc' = "translate_back"
       /\ query_context' = NoValue
       /\ query_analysis' = NoValue
       /\ results' = <<>>
       /\ entries' = <<>>
       /\ context' = <<>>
       /\ UNCHANGED <<query_language, search_query, output>>
  /\ UNCHANGED <<query, tr>>
  /\ UNCHANGED ingest_vars

\* lines 201-263: the synthesis model answered; an English question is
\* answered at once (line 263), the locals of lines 134-198 are not used again
Synthesize ==
  /\ pc = "synthesize"
  /\ calls' = calls \o <<Call("synthesize", search_query)>>
  /\ \E r \in Responses :
       IF query_language = "English"
       THEN PrintResponse(r)
       ELSE /\ english_response' = r
            /\ pc' = "translate_back"
            /\ query_context' = NoValue
            /\ query_analysis' = NoValue
            /\ results' = <<>>
            /\ entries' = <<>>
            /\ context' = <<>>
            /\ UNCHANGED <<query_language, search_query, output>>
  /\ UNCHANGED <<query, tr>>
  /\ UNCHANGED ingest_vars

\* lines 201-258: the synthesis call raised
SynthesizeFails ==
  /\ pc = "synthesize"
  /\ calls' = calls \o <<Call("synthesize", search_query)>>
  /\ ReportError("synthesize")
  /\ UNCHANGED <<query, tr>>
  /\ UNCHANGED ingest_vars

\* line 263: translate_text(client, english_response, query_language) returned
TranslateBack ==
  /\ pc = "translate_back"
  /\ \E o \in translate_text(english_response, query_language) :
       /\ ~o.raised
       /\ tr' = TrRecord(english_response, query_language, o)
       /\ calls' = calls \o TrCalls(query_language, o)
       /\ PrintResponse(o.result)
  /\ UNCHANGED query
  /\ UNCHANGED ingest_vars

\* line 263: the translation call raised
TranslateBackFails ==
  /\ pc = "translate_back"
  /\ \E o \in translate_text(english_response, query_language) :
       /\ o.raised
       /\ tr' = TrRecord(english_response, query_language, o)
       /\ calls' = calls \o TrCalls(query_language, o)
  /\ ReportError("translate")
  /\ UNCHANGED query
  /\ UNCHANGED ingest_vars

\* ------------------------------------------------------------------------
\* Environment: what the user types, what the models and the index answer
\* ------------------------------------------------------------------------
\* every sequence over S of length at most n
BoundedSeq(S, n) == UNION {[1..k -> S] : k \in 0..n}

Min(a, b) == IF a < b THEN a ELSE b

Intent(concept, sq, terms, flag) ==
  JObj([main_concept |-> JStr(concept), search_query |-> JStr(sq),
        exclude_terms |-> JList(terms), is_reclaim_query |-> flag])

Queries ==
  {<<"quit">>, <<"QUIT">>, <<"Quit now">>, <<>>,
   <<"How do I Reclaim a lead?">>, <<"What is a budget?">>,
   <<"Hoe werkt een CHARGEBACK?">>, <<"Wat is een budget?">>}

AnalysisOutputs ==
  {Garbage,
   Intent(<<"budget">>, <<"budget definition">>, <<>>, JBool(FALSE)),
   Intent(<<"reclaim">>, <<"reclaim guideline exception">>, <<JStr(<<"Review">>)>>, JBool(TRUE)),
   \* JSON, but not the contract
   JList(<<>>),
   JObj([main_concept |-> JStr(<<"budget">>)]),
   JObj([search_query |-> JStr(<<"budget definition">>)]),
   JObj([main_concept |-> JStr(<<"budget">>), search_query |-> JStr(<<"budget definition">>)]),
   Intent(<<"budget">>, <<"budget definition">>, <<JNum(1)>>, JBool(FALSE)),
   Intent(<<"budget">>, <<"budget definition">>, <<>>, JStr(<<"false">>))}

ControlPool ==
  {[content |-> <<"plain text">>, score |-> 4],
   [content |-> <<"\"thread_ts\": \"1700.12\"", "helpful tip">>, score |-> 6],
   [content |-> <<"good review">>, score |-> 0]}

SearchResponses == BoundedSeq(ControlPool, Min(MaxResults, MaxNumResults))

Next ==
  \/ Input(Queries)
  \/ TranslateQuery
  \/ TranslateQueryFails
  \/ Analyze(AnalysisOutputs)
  \/ AnalyzeFails
  \/ Search(SearchResponses)
  \/ SearchFails
  \/ Synthesize
  \/ SynthesizeFails
  \/ TranslateBack
  \/ TranslateBackFails

Spec == Init /\ [][Next]_vars

\* --- ranking: long search responses over a few candidates ---
RankQueries == {<<"quit">>, <<"What is a budget?">>, <<"Hoe werkt een CHARGEBACK?">>}

RankOutputs ==
  {Intent(<<"budget">>, <<"budget definition">>, <<>>, JBool(FALSE)),
   Intent(<<"budget">>, <<"budget definition">>, <<JStr(<<"Review">>)>>, JBool(FALSE)),
   Intent(<<"budget">>, <<"budget definition">>, <<JStr(<<"profile">>)>>, JBool(FALSE)),
   Intent(<<"reclaim">>, <<"reclaim guideline exception">>, <<>>, JBool(TRUE)),
   JObj([search_query |-> JStr(<<"budget definition">>)])}

\* adjusted scores of the two candidates: 5 and 5 without exclude terms,
\* 1.5 and 5 when "Review" is excluded, 5 and 1.5 when "profile" is,
\* 8 and 0 for a reclaim query
RankPool ==
  {[content |-> <<"\"metadata\": {\"source\": \"help\"}", "good review">>, score |-> 4],
   [content |-> <<"\"thread_ts\": \"1700.12\"", "Profile page">>, score |-> 5]}

RankResponses == BoundedSeq(RankPool, Min(MaxRankResults, MaxNumResults))

NextRank ==
  \/ Input(RankQueries)
  \/ TranslateQuery
  \/ TranslateQueryFails
  \/ Analyze(RankOutputs)
  \/ AnalyzeFails
  \/ Search(RankResponses)
  \/ SearchFails
  \/ Synthesize
  \/ SynthesizeFails
  \/ TranslateBack
  \/ TranslateBackFails

SpecRank == Init /\ [][NextRank]_vars

\* --- scoring: one candidate per search response, many contents ---
ScoreQueries == {<<"quit">>, <<"What is a budget?">>, <<"Hoe werkt een CHARGEBACK?">>}

ScoreOutputs ==
  {Intent(<<"budget">>, <<"budget definition">>, <<>>, JBool(FALSE)),
   Intent(<<"budget">>, <<"budget definition">>, <<JStr(<<"Review">>)>>, JBool(FALSE)),
   Intent(<<"budget">>, <<"budget definition">>,
          <<JStr(<<"Review">>), JStr(<<"profile">>)>>, JBool(FALSE)),
   Intent(<<"reclaim">>, <<"reclaim guideline exception">>, <<>>, JBool(TRUE)),
   Intent(<<"reclaim">>, <<"reclaim guideline exception">>,
          <<JStr(<<"Review">>), JStr(<<"profile">>)>>, JBool(TRUE)),
   JObj([search_query |-> JStr(<<"budget definition">>)])}

ScoreFrags ==
  {"plain text", "We NEED approval", "must have a Review", "step 1: pay", "good review",
   "Profile page",
   "\"thread_ts\": \"1700.12\"", "\"thread_ts\": \"\"",
   "\"metadata\": {\"source\": \"help\"}",
   "\"metadata\": {\"source\": \"product-changes\"}",
   "\"metadata\": {\"source\": \"customer-success\"}",
   "\"metadata\": {\"source\": \"official_document\"}",
   "\"metadata\": {\"source\": \"billing\"}",
   "Reclaim Guideline"}

RawScores == {0, 2, 5}

ScoreResponses ==
  {<<>>} \cup {<<[content |-> c, score |-> r]>> : c \in BoundedSeq(ScoreFrags, MaxFrags), r \in RawScores}

NextScore ==
  \/ Input(ScoreQueries)
  \/ TranslateQuery
  \/ TranslateQueryFails
  \/ Analyze(ScoreOutputs)
  \/ AnalyzeFails
  \/ Search(ScoreResponses)
  \/ SearchFails
  \/ Synthesize
  \/ SynthesizeFails
  \/ TranslateBack
  \/ TranslateBackFails

SpecScore == Init /\ [][NextScore]_vars

\* ------------------------------------------------------------------------
\* Properties
\* ------------------------------------------------------------------------
\* the intent's flags as search_and_respond reads them (lines 154-155)
PolicyQuery == Truthy(Get(query_analysis, "is_reclaim_query", JBool(FALSE)))
ExcludeTerms == Get(query_analysis, "exclude_terms", JList(<<>>))

\* the context list is handed to answer synthesis
Handed == pc = "synthesize"

HasMarker(c) == Contains(c, ThreadMarker)
HasRequirementPhrase(c) == \E p \in requirement_indicators : Contains(Lower(c), p)
HasListMarker(c) == \E m \in list_markers : Contains(c, m)
\* the exclude terms of the intent that occur in c, case-insensitively
MatchingTerms(c) ==
  {i \in DOMAIN ExcludeTerms.v : Contains(Lower(c), TermPattern(ExcludeTerms.v[i].v))}
InContext(i) == \E j \in DOMAIN context : context[j].pos = i

\* C1: under a policy query a candidate whose content carries the
\* thread-reference marker has adjusted score exactly 0, whatever its raw score
\* and boosts, and is not in the context handed to synthesis; every other
\* candidate's boosted score is doubled, whatever its source.
C1_PolicyQueryDropsChat ==
  (Handed /\ PolicyQuery) =>
    /\ \A i \in DOMAIN results :
         IF HasMarker(results[i].content)
         THEN entries[i].score = 0 /\ ~InContext(i)
         ELSE entries[i].score = 2 * boosted_score(results[i], ExcludeTerms)
    /\ \A j \in DOMAIN context : ~HasMarker(context[j].content)

\* a chat candidate of raw score 5 with a list marker and a recognised channel
\* is scored 0 and dropped under a policy query
C1_Witness ==
  /\ Handed /\ PolicyQuery
  /\ Len(results) = 1
  /\ results[1].score = 5
  /\ HasMarker(results[1].content)
  /\ HasListMarker(results[1].content)
  /\ entries[1].source = "product-changes"
  /\ entries[1].score = 0
  /\ context = <<>>

\* C2: the context handed to synthesis is in non-increasing order of adjusted
\* score, entries of equal score keep the order of their candidates in the
\* search response, and the list has at most 8 entries.
C2_SortedStableTop8 ==
  Handed =>
    /\ Len(context) <= 8
    /\ \A j \in DOMAIN context :
         /\ context[j].pos \in DOMAIN results
         /\ context[j] = entries[context[j].pos]
    /\ \A i, j \in DOMAIN context :
         i < j => /\ context[i].score >= context[j].score
                  /\ context[i].score = context[j].score => context[i].pos < context[j].pos

\* nine candidates, eight kept: two candidates of equal score left in response
\* order, and a better candidate moved in front of an earlier one
C2_Witness ==
  /\ Handed
  /\ Len(results) = 9
  /\ Len(context) = 8
  /\ \E i, j \in DOMAIN context :
       /\ i < j
       /\ context[i].score = context[j].score
       /\ context[i].pos < context[j].pos
  /\ \E i, j \in DOMAIN context :
       /\ i < j
       /\ context[i].score > context[j].score
       /\ context[i].pos > context[j].pos

\* the candidates whose final score is not 0
Qualifying == {i \in DOMAIN results : entries[i].score # 0}

\* C3: a candidate is dropped exactly when its final score is 0, every context
\* entry has a positive score, and the context has min(8, q) entries for q
\* qualifying candidates: all of them when q <= 8, none added.
C3_DropZeroKeepMin8 ==
  Handed =>
    /\ Len(context) = Min(8, Cardinality(Qualifying))
    /\ \A j \in DOMAIN context : context[j].score >= 0 /\ context[j].score # 0
    /\ \A j \in DOMAIN context : context[j].pos \in Qualifying
    /\ \A i, j \in DOMAIN context : i # j => context[i].pos # context[j].pos
    /\ Cardinality(Qualifying) <= 8 => \A i \in Qualifying : InContext(i)

\* three candidates of which one scores 0: the other two are the context
C3_Witness ==
  /\ Handed
  /\ Len(results) = 3
  /\ Cardinality(Qualifying) = 2
  /\ Len(context) = 2
  /\ \E i \in DOMAIN results : results[i].score > 0 /\ entries[i].score = 0

\* the trust table of the specification, in quarters
TrustQuarters(source) ==
  CASE source = "official_document" -> 8
    [] source = "product-changes" -> 7
    [] source = "help" -> 5
    [] source = "customer-success" -> 4
    [] OTHER -> 4

Unboosted(i) ==
  /\ ~HasRequirementPhrase(results[i].content)
  /\ ~HasListMarker(results[i].content)
  /\ MatchingTerms(results[i].content) = {}

\* C4: for a non-policy query a candidate with no requirement boost, no list
\* boost and no exclusion penalty has adjusted score raw * 2.0 for
\* official_document, * 1.75 for product-changes, * 1.25 for help and * 1.0 for
\* customer-success, any other source and no source.
C4_SourceMultiplier ==
  (Handed /\ ~PolicyQuery) =>
    \A i \in DOMAIN results :
      Unboosted(i) =>
        4 * entries[i].score = results[i].score * Scale * TrustQuarters(entries[i].source)

\* an unboosted candidate of the help channel, raw score 2, scored 2.5
C4_Witness ==
  /\ Handed /\ ~PolicyQuery
  /\ Len(results) = 1
  /\ Unboosted(1)
  /\ results[1].score = 2
  /\ entries[1].source = "help"
  /\ 2 * entries[1].score = 5 * Scale

\* raw score times the source-trust factor
SourceAdjustedBase(i) ==
  adjust_score_by_source(results[i].score * Scale, entries[i].source,
                         results[i].content, PolicyQuery)

\* C5 as stated: a candidate with a requirement phrase and an excluded term
\* has final score 0.45 times its source-adjusted base score.
C5_AsStated ==
  Handed =>
    \A i \in DOMAIN results :
      (HasRequirementPhrase(results[i].content) /\ MatchingTerms(results[i].content) # {})
        => 100 * entries[i].score = 45 * SourceAdjustedBase(i)

\* C5: the adjustments compose multiplicatively: a candidate with a requirement
\* phrase and an excluded term has final score 1.5 * 0.3 = 0.45 times its
\* source-adjusted base score when it has no list marker, and
\* 1.5 * 1.5 * 0.3 = 0.675 times when it has one.
C5_RequirementAndExclusion ==
  Handed =>
    \A i \in DOMAIN results :
      (HasRequirementPhrase(results[i].content) /\ MatchingTerms(results[i].content) # {})
        => IF HasListMarker(results[i].content)
           THEN 1000 * entries[i].score = 675 * SourceAdjustedBase(i)
           ELSE 100 * entries[i].score = 45 * SourceAdjustedBase(i)

\* an upper-case requirement phrase and an excluded term, no list marker:
\* raw 2 becomes 0.9
C5_Witness ==
  /\ Handed /\ ~PolicyQuery
  /\ Len(results) = 1
  /\ results[1].content = <<"We NEED approval", "good review">>
  /\ results[1].score = 2
  /\ 10 * entries[1].score = 9 * Scale
  /\ Len(context) = 1

\* the entry of candidate i had the intent no exclude terms
ScoreWithoutTerms(i) == make_entry(results[i], i, JList(<<>>), PolicyQuery).score

\* C6: whatever the number k >= 1 of exclude terms that occur in a candidate's
\* content, its score is multiplied by 0.3 once; with no term occurring, or no
\* exclude terms, the score is not reduced.
C6_PenaltyOnce ==
  Handed =>
    \A i \in DOMAIN results :
      IF MatchingTerms(results[i].content) # {}
      THEN 10 * entries[i].score = 3 * ScoreWithoutTerms(i)
      ELSE entries[i].score = ScoreWithoutTerms(i)

\* two of the two exclude terms occur in the content: raw 5 becomes 1.5
C6_Witness ==
  /\ Handed /\ ~PolicyQuery
  /\ Len(results) = 1
  /\ Cardinality(MatchingTerms(results[1].content)) = 2
  /\ results[1].score = 5
  /\ 2 * entries[1].score = 3 * Scale

\* the intent model's output is not JSON
Unparseable == query_context.t = "garbage"

\* search_query holds one of the policy words, in any case
HasPolicyWord ==
  \E w \in {"reclaim", "dispute", "chargeback"} : Contains(Lower(search_query), w)

\* C7: when the intent model's output is not parseable JSON the query goes on
\* with the intent {main_concept: question, search_query: question,
\* exclude_terms: [], is_reclaim_query: question holds reclaim, dispute or
\* chargeback in any case}, the question being the translated one, and the
\* search is issued with the question as its search string.
C7_FallbackIntent ==
  Unparseable =>
    /\ pc \in {"search", "synthesize"}
    /\ output.kind # "error"
    /\ query_analysis = [t |-> "obj",
                         v |-> [main_concept |-> [t |-> "str", v |-> search_query],
                                search_query |-> [t |-> "str", v |-> search_query],
                                exclude_terms |-> [t |-> "list", v |-> <<>>],
                                is_reclaim_query |-> [t |-> "bool", v |-> HasPolicyWord]]]
    /\ pc = "synthesize" => calls[Len(calls)] = [op |-> "search", arg |-> search_query]

\* a question with "Reclaim" capitalised: the fallback intent is a policy query
\* and the search was issued with the question
C7_Witness ==
  /\ Unparseable
  /\ pc = "synthesize"
  /\ search_query = <<"How do I Reclaim a lead?">>
  /\ query_analysis.v.is_reclaim_query.v = TRUE
  /\ calls[Len(calls)] = [op |-> "search", arg |-> <<"How do I Reclaim a lead?">>]

\* the four-field contract of the intent model's output
IsStr(x) == x.t = "str"
ConformsToContract(out) ==
  /\ out.t = "obj"
  /\ DOMAIN out.v = {"main_concept", "search_query", "exclude_terms", "is_reclaim_query"}
  /\ IsStr(out.v.main_concept)
  /\ IsStr(out.v.search_query)
  /\ out.v.exclude_terms.t = "list"
  /\ \A i \in DOMAIN out.v.exclude_terms.v : IsStr(out.v.exclude_terms.v[i])
  /\ out.v.is_reclaim_query.t = "bool"

\* C8: every deviation of the intent model's output from the contract makes
\* the query go on with the fallback intent and is never reported as an error.
C8_AnyDeviationFallsBack ==
  (query_context # NoValue /\ ~ConformsToContract(query_context)) =>
    /\ output.kind # "error"
    /\ pc \in {"search", "synthesize"}
    /\ query_analysis = fallback_intent(search_query)

Answering == {"translate_query", "analyze", "search", "synthesize", "translate_back"}

\* a failure while answering is reported and the loop is at the prompt again
FailureReported ==
  /\ (pc \in Answering /\ pc' \notin Answering) =>
        /\ pc' = "prompt"
        /\ output'.kind \in {"error", "response"}
  /\ pc = "exited" => pc' = "exited"
  /\ pc' = "exited" => pc \in {"prompt", "exited"}

\* a line was read
LineRead == pc = "prompt" /\ pc' # "prompt"

\* C9 as stated: a failure while answering a query is reported and the loop
\* reads the next line; the loop ends exactly when the line is 'quit', and no
\* call is issued for that line.
C9_AsStated ==
  [][/\ FailureReported
     /\ LineRead => /\ (pc' = "exited") <=> (query' = <<"quit">>)
                    /\ pc' = "exited" => calls' = <<>>]_vars

\* C9: a failure while answering a query is reported and the loop reads the
\* next line; the loop ends exactly when the line, lower-cased, is 'quit'
\* ('QUIT' ends it too), and no call is issued for that line.
C9_LoopSurvivesAndQuits ==
  [][/\ FailureReported
     /\ LineRead => /\ (pc' = "exited") <=> (Lower(query') = <<"quit">>)
                    /\ pc' = "exited" => calls' = <<>>
                    /\ pc' # "exited" => pc' \in Answering]_vars

\* a query failed, its error was printed, and the next line, QUIT, ended the loop
C9_Witness ==
  /\ pc = "exited"
  /\ query = <<"QUIT">>
  /\ output.kind = "error"
  /\ calls = <<>>

\* C10: translate_text returns its input and issues no model call when the
\* text is empty or blank or its detected language is the target; otherwise it
\* issues exactly one call and returns the model's reply as it is.
C10_TranslateNoOp ==
  tr # NoTr =>
    IF IsBlank(tr.text) \/ tr.detected = tr.target
    THEN tr.ncalls = 0 /\ ~tr.raised /\ tr.result = tr.text
    ELSE tr.ncalls = 1 /\ (tr.raised \/ tr.result = tr.reply)

\* a blank answer to a Dutch question comes back as it is, without a call
C10_Witness ==
  /\ tr.text = <<" ">>
  /\ tr.target = "Dutch"
  /\ tr.ncalls = 0
  /\ tr.result = <<" ">>
  /\ pc = "prompt"
  /\ output = [kind |-> "response", text |-> <<" ">>]
  /\ Len(calls) = 4

\* ------------------------------------------------------------------------
\* process_slack_data: chat ingestion
\* ------------------------------------------------------------------------
\* A chat message is a dict; a key that is absent holds NoneV (NoText for
\* the text).  get_openai_client and the isinstance test of line 103 are
\* taken to succeed: every element of the list is a dict.
MaxMessages == 3

Message(text, ts, thread_ts, user, channel) ==
  [text |-> text, ts |-> ts, thread_ts |-> thread_ts, user |-> user, channel |-> channel]

\* message.get(key, default)
MsgGet(message, key, default) ==
  IF message[key] = NoneV THEN default ELSE message[key]

\* line 14: not message.get('text')
NoTextIn(message) == message.text = NoText \/ message.text = <<>>

\* lines 38-43: the first keyword that occurs in the channel name
source_of_channel(channel) ==
  IF Contains(<<channel>>, "product-changes") THEN "product-changes"
  ELSE IF Contains(<<channel>>, "help") THEN "help"
  ELSE IF Contains(<<channel>>, "customer-success") THEN "customer-success"
  ELSE NoneV

\* lines 26-43: the processed message (source NoneV: the key is not set)
Processed(message, content, detected_lang) ==
  [content |-> content,
   channel |-> MsgGet(message, "channel", ""),
   timestamp |-> MsgGet(message, "ts", ""),
   thread_ts |-> MsgGet(message, "thread_ts", MsgGet(message, "ts", "")),
   user |-> MsgGet(message, "user", ""),
   original_language |-> detected_lang,
   source |-> source_of_channel(MsgGet(message, "channel", ""))]

NoProcessed ==
  [content |-> NoText, channel |-> NoneV, timestamp |-> NoneV, thread_ts |-> NoneV,
   user |-> NoneV, original_language |-> NoneV, source |-> NoneV]

\* Every outcome of process_message(message, client): None ("none"), a
\* processed message ("item"), or the translation call raised ("raised").
process_message(message) ==
  IF NoTextIn(message)
  THEN {[kind |-> "none", value |-> NoProcessed]}
  ELSE UNION {
    IF d # "English"
    THEN {IF o.raised
          THEN [kind |-> "raised", value |-> NoProcessed]
          ELSE [kind |-> "item", value |-> Processed(message, o.result, d)]
            : o \in translate_text(message.text, "English")}
    ELSE {[kind |-> "item", value |-> Processed(message, message.text, d)]}
    : d \in detect_language(message.text)}

\* lines 53-64: the threads dict after one processed message
add_to_thread(ths, processed) ==
  LET thread_ts == processed.thread_ts
      base == IF \E i \in DOMAIN ths : ths[i].thread_ts = thread_ts
              THEN ths
              ELSE Append(ths, [thread_ts |-> thread_ts, messages |-> <<>>,
                                timestamp |-> processed.timestamp, participants |-> {}])
      k == CHOOSE i \in DOMAIN base : base[i].thread_ts = thread_ts
  IN [base EXCEPT ![k].messages = Append(@, processed),
                  ![k].participants = @ \cup {processed.user}]

Raised(error) == [raised |-> TRUE, error |-> error, items |-> <<>>]
Returned(items) == [raised |-> FALSE, error |-> NoneV, items |-> items]

\* a call of process_conversations or of group_messages_by_thread
StartIngest(M) ==
  /\ ingest_pc = "idle"
  /\ \E path \in {"process_conversations", "group_messages_by_thread"}, ms \in M :
       /\ ingest_path' = path
       /\ messages' = ms
  /\ ingest_pc' = "loop"
  /\ msg_index' = 1
  /\ threads' = <<>>
  /\ processed_messages' = <<>>
  /\ ingest_result' = NoResult
  /\ UNCHANGED qa_vars

\* process_conversations lines 102-108: one turn of the loop
ConversationsStep ==
  /\ ingest_pc = "loop"
  /\ ingest_path = "process_conversations"
  /\ msg_index <= Len(messages)
  /\ \E o \in process_message(messages[msg_index]) :
       IF o.kind = "raised"
       THEN /\ ingest_pc' = "raised"
            /\ ingest_result' = Raised("translate")
            /\ UNCHANGED <<msg_index, processed_messages>>
       ELSE /\ processed_messages' = IF o.kind = "item"
                                     THEN Append(processed_messages, o.value)
                                     ELSE processed_messages
            /\ msg_index' = msg_index + 1
            /\ UNCHANGED <<ingest_pc, ingest_result>>
  /\ UNCHANGED <<ingest_path, messages, threads>>
  /\ UNCHANGED qa_vars

\* process_conversations line 110
ConversationsReturn ==
  /\ ingest_pc = "loop"
  /\ ingest_path = "process_conversations"
  /\ msg_index > Len(messages)
  /\ ingest_pc' = "returned"
  /\ ingest_result' = Returned(processed_messages)
  /\ UNCHANGED <<ingest_path, messages, msg_index, threads, processed_messages>>
  /\ UNCHANGED qa_vars

\* group_messages_by_thread lines 51-64: one turn of the loop.  Line 53
\* subscripts the value of process_message, which is None for a message
\* without text: TypeError.
GroupStep ==
  /\ ingest_pc = "loop"
  /\ ingest_path = "group_messages_by_thread"
  /\ msg_index <= Len(messages)
  /\ \E o \in process_message(messages[msg_index]) :
       IF o.kind = "item"
       THEN /\ threads' = add_to_thread(threads, o.value)
            /\ msg_index' = msg_index + 1
            /\ UNCHANGED <<ingest_pc, ingest_result>>
       ELSE /\ ingest_pc' = "raised"
            /\ ingest_result' = Raised(IF o.kind = "raised" THEN "translate" ELSE "TypeError")
            /\ UNCHANGED <<msg_index, threads>>
  /\ UNCHANGED <<ingest_path, messages, processed_messages>>
  /\ UNCHANGED qa_vars

\* group_messages_by_thread lines 67-76: the list built from threads.values().
\* Line 74 reads thread['metadata'], a key the dicts of lines 56-61 do not
\* have: KeyError for the first thread there is.
GroupReturn ==
  /\ ingest_pc = "loop"
  /\ ingest_path = "group_messages_by_thread"
  /\ msg_index > Len(messages)
  /\ IF threads = <<>>
     THEN /\ ingest_pc' = "returned"
          /\ ingest_result' = Returned(<<>>)
     ELSE /\ ingest_pc' = "raised"
          /\ ingest_result' = Raised("KeyError")
  /\ UNCHANGED <<ingest_path, messages, msg_index, threads, processed_messages>>
  /\ UNCHANGED qa_vars

\* the messages of the runs explored
MessagePool ==
  {Message(<<"What is a budget?">>, "1", NoneV, "U1", "help"),
   Message(<<"Wat is een budget?">>, "2", "1", "U2", "help-product-changes"),
   Message(<<>>, "3", NoneV, "U1", "help"),
   Message(NoText, "4", NoneV, NoneV, NoneV),
   Message(<<"Profile page">>, "5", NoneV, "U1", "general"),
   Message(<<"good review">>, "6", "1", "U1", "customer-success")}

MessageLists == BoundedSeq(MessagePool, MaxMessages)

NextIngest ==
  \/ StartIngest(MessageLists)
  \/ ConversationsStep
  \/ ConversationsReturn
  \/ GroupStep
  \/ GroupReturn

SpecIngest == Init /\ [][NextIngest]_vars

\* ------------------------------------------------------------------------
\* C11
\* ------------------------------------------------------------------------
\* the thread a message belongs to: thread_ts, or its own ts when absent
ThreadIdOf(message) == MsgGet(message, "thread_ts", MsgGet(message, "ts", ""))

ThreadIds == {ThreadIdOf(messages[i]) : i \in DOMAIN messages}

IsOfThread(message, tid) == ThreadIdOf(message) = tid

MessagesOf(tid) == SelectSeq(messages, LAMBDA m : IsOfThread(m, tid))

UsersOf(tid) == [j \in DOMAIN MessagesOf(tid) |-> MsgGet(MessagesOf(tid)[j], "user", "")]

\* group_messages_by_thread ran to its end over messages that all have text
\* (a failed translation call is not the function's doing)
GroupedAllWithText ==
  /\ ingest_path = "group_messages_by_thread"
  /\ ingest_pc \in {"returned", "raised"}
  /\ ingest_result.error # "translate"
  /\ \A i \in DOMAIN messages : ~NoTextIn(messages[i])

\* C11: for any list of chat messages with non-empty text,
\* group_messages_by_thread returns one item per distinct thread identifier
\* (thread_ts, or the message's own ts), whose content is the thread's
\* messages in arrival order as "{user}: {text}" lines and whose metadata
\* holds the participant set, the message count and the source of the
\* thread's first message.
C11_GroupsByThread ==
  GroupedAllWithText =>
    /\ ~ingest_result.raised
    /\ Len(ingest_result.items) = Cardinality(ThreadIds)
    /\ \A tid \in ThreadIds :
         \E k \in DOMAIN ingest_result.items :
           LET item == ingest_result.items[k]
           IN /\ item.thread_ts = tid
              /\ [j \in DOMAIN item.content |-> item.content[j].user] = UsersOf(tid)
              /\ item.participants = {UsersOf(tid)[j] : j \in DOMAIN UsersOf(tid)}
              /\ item.message_count = Len(MessagesOf(tid))
              /\ item.source = source_of_channel(MsgGet(MessagesOf(tid)[1], "channel", ""))

\* ------------------------------------------------------------------------
\* C12
\* ------------------------------------------------------------------------
\* the loop is about to handle messages[msg_index]
AtMessage == ingest_pc = "loop" /\ msg_index <= Len(messages)

\* the processed message the step has just stored
Stored ==
  IF ingest_path = "process_conversations"
  THEN processed_messages'[Len(processed_messages')]
  ELSE LET tid == ThreadIdOf(messages[msg_index])
           k == CHOOSE i \in DOMAIN threads' : threads'[i].thread_ts = tid
       IN threads'[k].messages[Len(threads'[k].messages)]

\* the step passes over the message: nothing is stored, the loop goes on
Skipped ==
  /\ ingest_pc' = "loop"
  /\ msg_index' = msg_index + 1
  /\ UNCHANGED <<threads, processed_messages, ingest_result>>

\* C12: on every ingestion path (process_conversations and
\* group_messages_by_thread) a message with missing or empty text is skipped
\* without an error and the remaining messages are still processed; a message
\* with text but no thread id, or with a channel matching no keyword, is
\* stored with the defaulted thread id and an unset source, never a crash.
C12_MissingFieldsAreAbsence ==
  [][AtMessage =>
       LET message == messages[msg_index]
       IN /\ NoTextIn(message) => Skipped
          /\ ~NoTextIn(message) =>
               /\ ingest_pc' = "raised" => ingest_result'.error = "translate"
               /\ ingest_pc' = "loop" =>
                    /\ msg_index' = msg_index + 1
                    /\ Stored.thread_ts = ThreadIdOf(message)
                    /\ Stored.source = source_of_channel(MsgGet(message, "channel", ""))]_vars

\* ------------------------------------------------------------------------
\* C13
\* ------------------------------------------------------------------------
RecognizedChannels == {"product-changes", "help", "customer-success"}

\* the pattern of line 176 finds a thread reference in the content
YieldsThreadRef(c) == \E i \in DOMAIN c : ThreadOfFrag(c[i]) # NoneV

HasLink(entry) == entry.slack_link # <<NoneV>>

\* C13: an entry of the context carries a Slack link if and only if its
\* content yields a thread reference and its extracted source is one of
\* product-changes, help, customer-success; with a thread reference but an
\* unset or other source, or without a thread reference, there is no link.
\* The same holds of every entry built, kept or not.
C13_LinkIffThreadAndChannel ==
  Handed =>
    /\ \A j \in DOMAIN context :
         /\ HasLink(context[j]) <=>
              (YieldsThreadRef(context[j].content) /\ context[j].source \in RecognizedChannels)
         /\ HasLink(context[j]) => context[j].slack_link[1] = context[j].source
    /\ \A i \in DOMAIN entries :
         HasLink(entries[i]) <=>
           (YieldsThreadRef(entries[i].content) /\ entries[i].source \in RecognizedChannels)

\* a kept entry with a link to the help channel, and its content names the thread
C13_Witness ==
  /\ Handed
  /\ \E j \in DOMAIN context :
       /\ context[j].slack_link = <<"help", "170012">>
       /\ YieldsThreadRef(context[j].content)

\* ------------------------------------------------------------------------
\* C15
\* ------------------------------------------------------------------------
\* C15: under a policy query no entry of the context handed to answer
\* synthesis carries a Slack link: a candidate whose content yields a thread
\* reference contains the thread marker, is scored 0 and is dropped.
C15_PolicyContextHasNoLinks ==
  (Handed /\ PolicyQuery) =>
    /\ \A j \in DOMAIN context : ~HasLink(context[j])
    /\ \A i \in DOMAIN results :
         YieldsThreadRef(results[i].content) =>
           /\ HasMarker(results[i].content)
           /\ entries[i].score = 0
           /\ ~InContext(i)

\* a policy query whose candidate has a positive raw score and would carry a
\* link, and is not handed on
C15_Witness ==
  /\ Handed
  /\ PolicyQuery
  /\ \E i \in DOMAIN results :
       /\ results[i].score > 0
       /\ HasLink(entries[i])
       /\ ~InContext(i)

\* ------------------------------------------------------------------------
\* C14
\* ------------------------------------------------------------------------
\* the external calls of the current invocation, by kind, in issue order
Ops == [i \in DOMAIN calls |-> calls[i].op]

CoreCalls == <<"analyze", "search", "synthesize">>

\* the call sequences of a completed invocation
CallOrders ==
  {CoreCalls, <<"translate">> \o CoreCalls, CoreCalls \o <<"translate">>,
   <<"translate">> \o CoreCalls \o <<"translate">>}

IsPrefixOf(s, t) == Len(s) <= Len(t) /\ SubSeq(t, 1, Len(s)) = s

\* main printed the error of a failed external call
CallFailed ==
  /\ pc = "prompt"
  /\ output.kind = "error"
  /\ output.text[1] \in {"translate", "analyze", "search", "synthesize"}

NonEnglish == query_language \notin {"English", NoneV}

CallsInOrder ==
  /\ \E t \in CallOrders : IsPrefixOf(Ops, t)
  /\ (pc = "prompt" /\ output.kind = "response") => Ops \in CallOrders
  /\ CallFailed => (calls # <<>> /\ Ops[Len(Ops)] = output.text[1])
  /\ pc \in {"translate_query", "translate_back"} => NonEnglish
  /\ \A i \in DOMAIN calls : (pc # "prompt" /\ calls[i].op = "translate") =>
       calls[i].arg = (IF i = 1 THEN <<"English">> ELSE <<query_language>>)

CallsOneAtATime ==
  /\ calls' # calls =>
       \/ pc = "prompt" /\ calls' = <<>>
       \/ /\ pc \in Answering
          /\ Len(calls') = Len(calls) + 1
          /\ SubSeq(calls', 1, Len(calls)) = calls
          /\ calls'[Len(calls')].op = "translate" => NonEnglish
  /\ pc = "prompt" => calls' = <<>>

\* C14: within one invocation the external calls are issued one at a time in
\* the order query translation (optional), intent analysis, one index search,
\* one answer synthesis, back-translation (optional), each at most once; a
\* translation is attempted only when the detected query language is not
\* English; after a failed call no later call is issued.
C14_CallOrder == []CallsInOrder /\ [][CallsOneAtATime]_vars

\* a Dutch question answered with all five calls
C14_Witness ==
  /\ pc = "prompt"
  /\ output.kind = "response"
  /\ Ops = <<"translate">> \o CoreCalls \o <<"translate">>

====
